---- MODULE Spec2Model ----
(***************************************************************************)
(* A model of src/ollama.py: the Ollama client class.  One action per      *)
(* public method; the two generator methods (pull_model, push_model) have  *)
(* a call action that creates the generator object, and GenNext and        *)
(* GenAbandon for the caller resuming or dropping it.                      *)
(*                                                                         *)
(* A URL is the sequence of its "/"-separated segments, so that            *)
(* f"{api_url}/{endpoint}" is concatenation.  A Python dict is a function  *)
(* from its keys to its values.  None is the record NoneArg.               *)
(***************************************************************************)
EXTENDS Integers, Sequences, FiniteSets, TLC

VARIABLES
    base_url,        \* self.base_url, fixed at construction
    checks_scheme,   \* the transport rejects a target without a scheme (the real requests library does)
    op,              \* the method invoked last
    arg,             \* its arguments
    sent,            \* the calls made to requests.post/get/delete/head by this invocation, in order
    reply,           \* what the transport answered to the last of them
    ret,             \* what the invocation handed to its caller
    gen,             \* the generator object of pull_model/push_model: its frame
    yielded,         \* the values the generator has yielded so far
    conn             \* the connection of the streamed response

vars == <<base_url, checks_scheme, op, arg, sent, reply, ret, gen, yielded, conn>>

----------------------------------------------------------------------------
(* Bounds and input domains *)

MaxLines == 3

Bases == {"http://localhost:11434", "https://ollama.example", "localhost:11434"}
Schemed == {"http://localhost:11434", "https://ollama.example"}
Models == {"llama2", "mistral"}
Prompts == {"hello", ""}
Digests == {"sha256:aa", "sha256:bb"}
Paths == {"/tmp/model.bin", "/tmp/other.bin"}
FileStates == {"missing", "unreadable", "ok"}
Lines == {"", "a", "b"}
OptionKeys == {"temperature", "num_ctx", "bogus", "Temperature"}
OptionValues == {1, 2}
Statuses == {200, 201, 404, 500}

NoneArg == [none |-> TRUE]
Dict(m) == [none |-> FALSE, map |-> m]
EmptyDict == [k \in {} |-> 0]

\* every dict over OptionKeys, and None
OptionArgs ==
    {NoneArg} \cup
    {Dict(m) : m \in UNION {[K -> OptionValues] : K \in SUBSET OptionKeys}}

Bodies == UNION {[1..n -> Lines] : n \in 0..MaxLines}

----------------------------------------------------------------------------
(* The transport: the requests library as this client uses it *)

HasScheme(url) == Len(url) > 0 /\ url[1] \in Schemed

Raised(e) == [exc |-> e, status |-> 0, lines |-> <<>>, json_ok |-> FALSE]
Answer(s, b, j) == [exc |-> "", status |-> s, lines |-> b, json_ok |-> j]
NoReply == Raised("none")

\* the outcomes of one call of requests.<method>(url, ...)
Replies(url, bodies, jsons) ==
    IF checks_scheme /\ ~HasScheme(url)
    THEN {Raised("MissingSchema")}
    ELSE {Raised("ConnectionError")}
         \cup {Answer(s, b, j) : s \in Statuses, b \in bodies, j \in jsons}

Req(method, url, json, files, stream) ==
    [method |-> method, url |-> url, json |-> json, files |-> files, stream |-> stream]

NoBody == [absent |-> TRUE]

----------------------------------------------------------------------------
(* What a call hands back *)

RetNone == [kind |-> "none", status |-> 0, flag |-> FALSE, exc |-> "", handled |-> FALSE]
RetPair(s) == [RetNone EXCEPT !.kind = "pair", !.status = s]
RetBool(b) == [RetNone EXCEPT !.kind = "bool", !.flag = b]
RetInt(s, h) == [RetNone EXCEPT !.kind = "int", !.status = s, !.handled = h]
RetRaise(e) == [RetNone EXCEPT !.kind = "raise", !.exc = e]
RetGenerator == [RetNone EXCEPT !.kind = "generator"]

NoGen == [state |-> "none", endpoint |-> "", parameters |-> NoBody, stream |-> FALSE,
          lines |-> <<>>, pos |-> 0, stop |-> RetNone]

----------------------------------------------------------------------------
(* Ollama.__init__ *)

api_url == <<base_url, "api">>

Url(endpoint) == api_url \o endpoint

Init ==
    /\ base_url \in Bases
    /\ checks_scheme \in BOOLEAN
    /\ op = "none"
    /\ arg = NoneArg
    /\ sent = <<>>
    /\ reply = NoReply
    /\ ret = RetNone
    /\ gen = NoGen
    /\ yielded = <<>>
    /\ conn = "none"

\* the caller is between two calls: nothing of an earlier call is left
Idle == op = "none"

\* The finished call's outcome is dropped.  The object keeps no state from one
\* call to the next except base_url and api_url, so the next call starts from
\* the state the constructor left.
Forget ==
    /\ op # "none"
    /\ gen.state \notin {"created", "suspended"}
    /\ op' = "none"
    /\ arg' = NoneArg
    /\ sent' = <<>>
    /\ reply' = NoReply
    /\ ret' = RetNone
    /\ gen' = NoGen
    /\ yielded' = <<>>
    /\ conn' = "none"
    /\ UNCHANGED <<base_url, checks_scheme>>

\* a non-generator method ran to its end
Finish(o, a, s, rp, r) ==
    /\ op' = o
    /\ arg' = a
    /\ sent' = s
    /\ reply' = rp
    /\ ret' = r
    /\ gen' = NoGen
    /\ yielded' = <<>>
    /\ conn' = "none"
    /\ UNCHANGED <<base_url, checks_scheme>>

----------------------------------------------------------------------------
(* The request helpers *)

PairOf(rp) == IF rp.exc # "" THEN RetRaise(rp.exc) ELSE RetPair(rp.status)

HTTP_OK == 200

HeadOk(status) == status < 400

\* response.status_code == 200
HeadResult(status) == status = HTTP_OK

BoolOf(rp) == IF rp.exc # "" THEN RetRaise(rp.exc) ELSE RetBool(HeadResult(rp.status))

\* _post_request, _get_request, _delete_request: one call of requests, then
\* (status_code, response); an exception of the transport is not caught
_post_request(endpoint, data, rp) ==
    [sent |-> <<Req("POST", Url(endpoint), data, NoBody, FALSE)>>, ret |-> PairOf(rp)]

_get_request(endpoint, rp) ==
    [sent |-> <<Req("GET", Url(endpoint), NoBody, NoBody, FALSE)>>, ret |-> PairOf(rp)]

_delete_request(endpoint, data, rp) ==
    [sent |-> <<Req("DELETE", Url(endpoint), data, NoBody, FALSE)>>, ret |-> PairOf(rp)]

_head_request(endpoint, rp) ==
    [sent |-> <<Req("HEAD", Url(endpoint), NoBody, NoBody, FALSE)>>, ret |-> BoolOf(rp)]

Plain(url) == Replies(url, {<<>>}, {TRUE})

----------------------------------------------------------------------------
(* Option filtering *)

allowed_options ==
    {"num_keep", "seed", "num_predict", "top_k", "top_p", "tfs_z", "typical_p",
     "repeat_last_n", "temperature", "repeat_penalty", "presence_penalty",
     "frequency_penalty", "mirostat", "mirostat_tau", "mirostat_eta",
     "penalize_newline", "stop", "numa", "num_ctx", "num_batch", "num_gqa",
     "num_gpu", "main_gpu", "low_vram", "f16_kv", "logits_all", "vocab_only",
     "use_mmap", "use_mlock", "embedding_only", "rope_frequency_base",
     "rope_frequency_scale", "num_thread"}

\* `options or {}`: None and the empty dict are both falsy
OrEmpty(o) == IF o.none THEN EmptyDict ELSE IF DOMAIN o.map = {} THEN EmptyDict ELSE o.map

Unfiltered(options, allowed) == options

\* {key: options[key] for key in options if key in allowed}
validated_options(options, allowed) ==
    [key \in {k \in DOMAIN options : k \in allowed} |-> options[key]]

GenerateAllowList == allowed_options

embeddings_allowed_options == {}

----------------------------------------------------------------------------
(* The methods that return what one request gave *)

generate_completion ==
    /\ Idle
    /\ \E model \in Models, prompt \in Prompts, options \in OptionArgs, stream \in BOOLEAN :
         LET parameters ==
                 [model |-> model, prompt |-> prompt, format |-> "json",
                  options |-> validated_options(OrEmpty(options), allowed_options),
                  system |-> "None", template |-> "None", context |-> "None",
                  stream |-> stream, raw |-> FALSE]
         IN  \E rp \in Plain(Url(<<"generate">>)) :
               LET r == _post_request(<<"generate">>, parameters, rp)
               IN  Finish("generate_completion",
                          [model |-> model, prompt |-> prompt, options |-> options,
                           stream |-> stream],
                          r.sent, rp, r.ret)

generate_chat_completion ==
    /\ Idle
    /\ \E model \in Models, options \in OptionArgs, stream \in BOOLEAN :
         LET parameters ==
                 [model |-> model, messages |-> <<>>, format |-> "json",
                  options |-> OrEmpty(options), template |-> "None", stream |-> stream]
         IN  \E rp \in Plain(Url(<<"chat">>)) :
               LET r == _post_request(<<"chat">>, parameters, rp)
               IN  Finish("generate_chat_completion",
                          [model |-> model, options |-> options, stream |-> stream],
                          r.sent, rp, r.ret)

create_model ==
    /\ Idle
    /\ \E name \in Models, stream \in BOOLEAN :
         LET parameters ==
                 [name |-> name, modelfile |-> "None", stream |-> stream, path |-> "None"]
         IN  \E rp \in Plain(Url(<<"create">>)) :
               LET r == _post_request(<<"create">>, parameters, rp)
               IN  Finish("create_model", [name |-> name, stream |-> stream],
                          r.sent, rp, r.ret)

blob_exists ==
    /\ Idle
    /\ \E digest \in Digests :
         \E rp \in Plain(Url(<<"blobs", digest>>)) :
           LET r == _head_request(<<"blobs", digest>>, rp)
           IN  Finish("blob_exists", [digest |-> digest], r.sent, rp, r.ret)

list_local_models ==
    /\ Idle
    /\ \E rp \in Plain(Url(<<"tags">>)) :
         LET r == _get_request(<<"tags">>, rp)
         IN  Finish("list_local_models", NoneArg, r.sent, rp, r.ret)

show_model_info ==
    /\ Idle
    /\ \E name \in Models :
         \E rp \in Plain(Url(<<"show">>)) :
           LET r == _post_request(<<"show">>, [name |-> name], rp)
           IN  Finish("show_model_info", [name |-> name], r.sent, rp, r.ret)

copy_model ==
    /\ Idle
    /\ \E source \in Models, destination \in Models :
         \E rp \in Plain(Url(<<"copy">>)) :
           LET r == _post_request(<<"copy">>,
                                  [source |-> source, destination |-> destination], rp)
           IN  Finish("copy_model", [source |-> source, destination |-> destination],
                      r.sent, rp, r.ret)

delete_model ==
    /\ Idle
    /\ \E name \in Models :
         \E rp \in Plain(Url(<<"delete">>)) :
           LET r == _delete_request(<<"delete">>, [name |-> name], rp)
           IN  Finish("delete_model", [name |-> name], r.sent, rp, r.ret)

generate_embeddings ==
    /\ Idle
    /\ \E model \in Models, prompt \in Prompts, additional_options \in OptionArgs :
         LET parameters ==
                 [model |-> model, prompt |-> prompt,
                  options |-> validated_options(OrEmpty(additional_options),
                                                embeddings_allowed_options)]
         IN  \E rp \in Plain(Url(<<"embeddings">>)) :
               LET r == _post_request(<<"embeddings">>, parameters, rp)
               IN  Finish("generate_embeddings",
                          [model |-> model, prompt |-> prompt,
                           options |-> additional_options],
                          r.sent, rp, r.ret)

----------------------------------------------------------------------------
(* create_blob *)

AlwaysThere(fstate) == TRUE

\* os.path.exists(file_path)
os_path_exists(fstate) == fstate # "missing"

\* open(file_path, "rb") raises unless the file can be read
open_raises(fstate) == fstate # "ok"

PrefixedTarget(digest) == Url(<<"blobs", digest>>)

\* endpoint = f"blobs/{digest}", handed to requests.post as it is
blob_target(digest) == <<"blobs", digest>>

UPLOAD_FAILED == 500

Propagated(e) == RetRaise(e)

\* except Exception as e: print(...); return 500
upload_except(e) == RetInt(UPLOAD_FAILED, TRUE)

create_blob ==
    /\ Idle
    /\ \E digest \in Digests, file_path \in Paths, fstate \in FileStates :
         LET a == [digest |-> digest, file_path |-> file_path, fstate |-> fstate]
             target == blob_target(digest)
         IN  IF ~os_path_exists(fstate)
             THEN Finish("create_blob", a, <<>>, NoReply, RetRaise("FileNotFoundError"))
             ELSE IF open_raises(fstate)
             THEN Finish("create_blob", a, <<>>, NoReply, upload_except("OSError"))
             ELSE \E rp \in Plain(target) :
                    Finish("create_blob", a,
                           <<Req("POST", target, NoBody, [file |-> file_path], FALSE)>>,
                           rp,
                           IF rp.exc # "" THEN upload_except(rp.exc)
                                          ELSE RetInt(rp.status, FALSE))

----------------------------------------------------------------------------
(* pull_model, push_model: generator functions, because their bodies hold a *)
(* yield.  Calling one runs none of its body: it returns a generator.       *)

NewGenerator(o, endpoint, name, insecure, stream) ==
    /\ op' = o
    /\ arg' = [name |-> name, insecure |-> insecure, stream |-> stream]
    /\ gen' = [state |-> "created", endpoint |-> endpoint,
               parameters |-> [name |-> name, insecure |-> insecure, stream |-> stream],
               stream |-> stream, lines |-> <<>>, pos |-> 0, stop |-> RetNone]
    /\ ret' = RetGenerator
    /\ sent' = <<>>
    /\ reply' = NoReply
    /\ yielded' = <<>>
    /\ conn' = "none"
    /\ UNCHANGED <<base_url, checks_scheme>>

pull_model ==
    /\ Idle
    /\ \E name \in Models, insecure \in BOOLEAN, stream \in BOOLEAN :
         NewGenerator("pull_model", "pull", name, insecure, stream)

push_model ==
    /\ Idle
    /\ \E name \in Models, insecure \in BOOLEAN, stream \in BOOLEAN :
         NewGenerator("push_model", "push", name, insecure, stream)

AnyLine(line) == TRUE

\* `if line:`
Truthy(line) == line # ""

\* for line in response.iter_lines(): if line: ...
\* the index of the next line that is yielded, 0 when the lines run out
RECURSIVE NextLine(_, _)
NextLine(lines, i) ==
    IF i >= Len(lines) THEN 0
    ELSE IF Truthy(lines[i + 1]) THEN i + 1
    ELSE NextLine(lines, i + 1)

\* the loop runs on to its next yield, or to the end of the lines
Step(g) ==
    LET j == NextLine(g.lines, g.pos)
    IN  IF j = 0
        THEN /\ gen' = [g EXCEPT !.state = "exhausted", !.pos = Len(g.lines)]
             /\ conn' = "released"
             /\ UNCHANGED yielded
        ELSE /\ gen' = [g EXCEPT !.state = "suspended", !.pos = j]
             /\ yielded' = Append(yielded, g.lines[j])
             /\ conn' = "open"

\* the body from its first line: the request, then the loop or the return
Start ==
    LET url == Url(<<gen.endpoint>>)
    IN  \E rp \in Replies(url, IF gen.stream THEN Bodies ELSE {<<>>},
                               IF gen.stream THEN {TRUE} ELSE BOOLEAN) :
          /\ sent' = <<Req("POST", url, gen.parameters, NoBody, gen.stream)>>
          /\ reply' = rp
          /\ IF rp.exc # ""
             THEN /\ gen' = [gen EXCEPT !.state = "raised", !.stop = RetRaise(rp.exc)]
                  /\ conn' = "none"
                  /\ UNCHANGED yielded
             ELSE IF gen.stream
             THEN Step([gen EXCEPT !.lines = rp.lines])
             ELSE /\ gen' = IF rp.json_ok
                            THEN [gen EXCEPT !.state = "exhausted",
                                             !.stop = RetPair(rp.status)]
                            ELSE [gen EXCEPT !.state = "raised",
                                             !.stop = RetRaise("JSONDecodeError")]
                  /\ conn' = "released"
                  /\ UNCHANGED yielded

\* the caller asks the generator for its next value
GenNext ==
    /\ gen.state \in {"created", "suspended"}
    /\ IF gen.state = "created"
       THEN Start
       ELSE Step(gen) /\ UNCHANGED <<sent, reply>>
    /\ UNCHANGED <<base_url, checks_scheme, op, arg, ret>>

\* the caller stops consuming.  The generator ends where it stands; the body
\* has no with, no finally and no response.close(), so nothing in it releases
\* the connection: it stays open unless the interpreter happens to finalize
\* the response object.
GenAbandon ==
    /\ gen.state \in {"created", "suspended"}
    /\ gen' = [gen EXCEPT !.state = "closed"]
    /\ conn' \in (IF conn = "open" THEN {"open", "closed"} ELSE {conn})
    /\ UNCHANGED <<base_url, checks_scheme, op, arg, sent, reply, ret, yielded>>

----------------------------------------------------------------------------

Next ==
    \/ generate_completion
    \/ generate_chat_completion
    \/ create_model
    \/ blob_exists
    \/ create_blob
    \/ list_local_models
    \/ show_model_info
    \/ copy_model
    \/ delete_model
    \/ pull_model
    \/ push_model
    \/ GenNext
    \/ GenAbandon
    \/ generate_embeddings
    \/ Forget

Spec == Init /\ [][Next]_vars

----------------------------------------------------------------------------
(* The claims *)

Streaming == op \in {"pull_model", "push_model"}

\* C1: pull_model or push_model called with stream=false hands its caller a
\* (status code, parsed JSON body) pair, not a generator object.
C1_NonStreamingCallReturnsPair ==
    (Streaming /\ ~arg.stream) => ret.kind = "pair"

NonEmpty(line) == line # ""

\* C2: with stream=true, the values yielded are exactly the non-empty lines the
\* server delivered, each once and in arrival order: at every yield they are
\* the non-empty lines of the prefix read so far, the last of them the line
\* just read; and when the generator is exhausted every line has been read
\* and the generator carries no return value.
C2_StreamYieldsNonEmptyLinesInOrder ==
    (Streaming /\ arg.stream /\ reply.exc = "") =>
        /\ gen.pos \in 0..Len(reply.lines)
        /\ yielded = SelectSeq(SubSeq(reply.lines, 1, gen.pos), NonEmpty)
        /\ gen.state = "suspended" =>
               /\ yielded # <<>>
               /\ yielded[Len(yielded)] = reply.lines[gen.pos]
        /\ gen.state = "exhausted" =>
               /\ yielded = SelectSeq(reply.lines, NonEmpty)
               /\ gen.stop.kind = "none"

C2_Witness ==
    /\ op = "pull_model"
    /\ arg.stream
    /\ gen.state = "exhausted"
    /\ reply.lines = <<"a", "", "b">>
    /\ yielded = <<"a", "b">>

\* C3 as stated: blob_exists always returns a boolean, true exactly when the
\* HEAD request answered 200, and false also when the request failed to connect.
C3_BlobExistsNeverRaises ==
    op = "blob_exists" =>
        /\ ret.kind = "bool"
        /\ ret.flag = (reply.exc = "" /\ reply.status = 200)

\* C3 amended: when the HEAD request is answered, blob_exists returns true if
\* and only if the status is exactly 200 (false for 201, 404, 500); when the
\* HEAD request raises, that exception reaches the caller.
C3_BlobExistsTrueIff200ElseRaises ==
    op = "blob_exists" =>
        /\ Len(sent) = 1
        /\ sent[1].method = "HEAD"
        /\ IF reply.exc = ""
           THEN ret.kind = "bool" /\ ret.flag = (reply.status = 200)
           ELSE ret.kind = "raise" /\ ret.exc = reply.exc

C3_Witness ==
    /\ op = "blob_exists"
    /\ reply.exc = "ConnectionError"
    /\ ret.kind = "raise"

\* C4: the options field of generate_completion's payload holds exactly the
\* input's keys that are on the allow-list, each with its given value, and
\* nothing else; None gives the empty mapping.
C4_GenerateOptionsFiltered ==
    op = "generate_completion" =>
        /\ Len(sent) = 1
        /\ LET out == sent[1].json.options
           IN  IF arg.options.none
               THEN DOMAIN out = {}
               ELSE /\ DOMAIN out = DOMAIN arg.options.map \cap allowed_options
                    /\ \A k \in DOMAIN out : out[k] = arg.options.map[k]

C4_Witness ==
    /\ op = "generate_completion"
    /\ ~arg.options.none
    /\ DOMAIN arg.options.map = {"temperature", "bogus"}
    /\ DOMAIN sent[1].json.options = {"temperature"}
    /\ sent[1].json.options["temperature"] = arg.options.map["temperature"]

\* C5: create_blob on a path that does not exist raises FileNotFoundError and
\* makes no HTTP request.
C5_MissingFileRaisesWithoutRequest ==
    (op = "create_blob" /\ arg.fstate = "missing") =>
        /\ ret.kind = "raise"
        /\ ret.exc = "FileNotFoundError"
        /\ sent = <<>>

C5_Witness ==
    /\ op = "create_blob"
    /\ arg.fstate = "missing"
    /\ ret.kind = "raise"

\* C6: when the file exists, create_blob returns 500 if opening the file or
\* the POST raised, and no exception reaches the caller; it returns the
\* response's status code if the POST completed.
C6_UploadFailureIs500 ==
    (op = "create_blob" /\ arg.fstate # "missing") =>
        /\ ret.kind = "int"
        /\ (arg.fstate = "unreadable" \/ reply.exc # "") => ret.status = 500
        /\ (arg.fstate = "ok" /\ reply.exc = "") =>
               Len(sent) = 1 /\ ret.status = reply.status

C6_Witness ==
    /\ op = "create_blob"
    /\ arg.fstate = "ok"
    /\ reply.exc = "ConnectionError"
    /\ ret.kind = "int"
    /\ ret.status = 500

\* C7: every invocation of a client operation, once it is over, has made
\* exactly one HTTP request; for pull_model and push_model also when the
\* generator returned was never iterated.  (create_blob is held to it only
\* when its file can be opened.)
C7_ExactlyOneRequestPerCall ==
    (/\ op # "none"
     /\ gen.state \notin {"created", "suspended"}
     /\ op = "create_blob" => arg.fstate = "ok")
        => Len(sent) = 1

\* C8: whatever additional_options generate_embeddings is given, the options
\* field of its payload is the empty mapping, and model and prompt are
\* forwarded as given.
C8_EmbeddingsOptionsAlwaysEmpty ==
    op = "generate_embeddings" =>
        /\ Len(sent) = 1
        /\ DOMAIN sent[1].json.options = {}
        /\ sent[1].json.model = arg.model
        /\ sent[1].json.prompt = arg.prompt

C8_Witness ==
    /\ op = "generate_embeddings"
    /\ ~arg.options.none
    /\ "temperature" \in DOMAIN arg.options.map
    /\ DOMAIN sent[1].json.options = {}

\* C9: a streaming pull_model/push_model call never ends with its connection
\* open, whether the caller consumed the lines to the end or stopped early.
C9_ConnectionReleasedAtEnd ==
    (Streaming /\ arg.stream /\ gen.state \in {"exhausted", "closed"})
        => conn # "open"

====
